---- MODULE Spec2Model ----
(***************************************************************************)
(* A model of the topology gossip handler (package topo, TopoHandler) of   *)
(* go-vite: the peer registry (sync.Map), the deduplication filter, the    *)
(* broadcaster goroutine (sendLoop), the per-connection receive loops      *)
(* (Handle / Receive) and the lifecycle operations Start and Stop.         *)
(*                                                                         *)
(* Every goroutine is a process with a program counter; one action is one  *)
(* step between two accesses to shared state (registry, filter, term       *)
(* channel, wait group, peer connection, producer input channel).          *)
(***************************************************************************)
EXTENDS Naturals, FiniteSets, Sequences

\* ---------------------------------------------------------------- bounds
\* Calls of Start the owner of the handler makes.
MaxStarts == 2
\* Messages the peers deliver in a run, over all connections.
MaxMsgs == 2
\* Ticks the tickers deliver in a run, over all sendLoops.
MaxTicks == 2
\* Length of the peers list of a Topo the codec is tried on.
MaxPeers == 2
\* Seconds since the epoch of the time of a Topo the codec is tried on.
MaxSec == 1
\* Enqueue calls made on a BlockQueue, and the heights of their blocks.
MaxEnqueues == 4
MaxHeight == 3

\* ------------------------------------------------------ program constants
\* Receive: "if length < 32".
HashLen == 32
\* const topoCmd = 1
topoCmd == 1

\* The connections the p2p server hands to Handle: two from peer "A" (the
\* second a reconnect) and one from peer "B".
Conns == {"A1", "B1", "A2"}
\* The peer identities, the keys of the registry.
Ids == {"A", "B"}
\* The sendLoop goroutines, one per Start.
Loops == 1..MaxStarts
\* The 32-byte digests inbound messages carry.
Digests == {"d1", "d2"}

\* The registry value for a key that is not stored.
NoPeer == "-"

\* p.String(): the identity under which connection c is registered.
PeerString(c) == IF c = "B1" THEN "B" ELSE "A"

\* Commands a peer can send: the topology command and another one.
Cmds == {topoCmd, topoCmd + 1}

\* Payloads a peer can put on the wire after the command check: the payload
\* is the length, the first 32 bytes (absent when shorter) and what the
\* remaining bytes unmarshal to.
ShortLen == HashLen - 1
FullLen  == HashLen + 1
NoMsg == [len |-> 0, hash |-> "", body |-> "none"]
Payloads ==
    {[len |-> ShortLen, hash |-> "", body |-> "none"]}
    \cup {[len |-> FullLen, hash |-> d, body |-> b] :
            d \in Digests, b \in {"topo", "garbage"}}

VARIABLES
    peers,      \* t.peers: identity -> connection registered under it, or NoPeer
    record,     \* t.record: digests held by the filter
    termClosed, \* t.term has been closed
    prodSet,    \* t.prod != nil
    wg,         \* t.wg counter
    panicked,   \* an unrecovered panic has taken the process down
    stalled,    \* connections whose WriteMsg never completes
    sinkStalled,\* the producer's input channel is not being drained
    msgs,       \* messages delivered by ReadMsg so far
    hpc,        \* Handle invocation c: position
    hmsg,       \* Handle invocation c: message being processed by Receive
    htodo,      \* Handle invocation c: keys the relay Range has yet to visit
    hwrote,     \* Handle invocation c: keys whose peer the relay has written to
    hstable,    \* Handle invocation c: registry untouched since the Range began
    hsent,      \* Handle invocation c: the message its relay has last written
    herr,       \* Handle invocation c: the error Receive has just returned
    slpc,       \* sendLoop i: position
    ticks,      \* ticks taken from a ticker.C so far
    sltodo,     \* sendLoop i: keys the broadcast Range has yet to visit
    observing,  \* the ticks of the broadcaster are being observed
    slstable,   \* sendLoop i: its tick is observed, and the registry is
                \*   untouched since Topology() ran
    sltopo,     \* sendLoop i: topo, the snapshot Topology() has built, ...
    slwrote,    \* sendLoop i: ... and the <<key, payload>> of the writes of
                \*   this tick, both kept for as long as slstable
    started,    \* number of Start calls so far
    stopped,    \* some Stop call has returned
    ctl,        \* the owner's position: idle, or inside Stop
    last,       \* the last call that returned: Start, Stop or StopNoop
    cpc,        \* codec round trip: position
    cin,        \* codec round trip: the Topo that is serialized
    cout,       \* codec round trip: the bytes Serialize returned
    cdec,       \* codec round trip: the Topo that Deserialize filled in
    items,      \* BlockQueue q.items: the heights of the blocks, in order
    enqueued,   \* the heights Enqueue has been called with, in call order
    qpanic      \* an Enqueue call has panicked

vars == <<peers, record, termClosed, prodSet, wg, panicked, stalled,
          sinkStalled, msgs, hpc, hmsg, htodo, hwrote, hstable, hsent, herr,
          slpc, ticks, sltodo, observing, sltopo, slwrote, slstable,
          started, stopped,
          ctl, last, cpc, cin, cout, cdec, items, enqueued, qpanic>>

hvars  == <<msgs, hpc, hmsg, htodo, hwrote, hstable, hsent, herr>>
slvars == <<slpc, ticks, sltodo, started>>
tkvars == <<sltopo, slwrote, slstable>>
tvars  == <<peers, record, termClosed, prodSet, wg, panicked>>
cvars  == <<cpc, cin, cout, cdec>>
qvars  == <<items, enqueued, qpanic>>
stvars == <<stopped, ctl, last>>
envvars == <<stalled, sinkStalled>>

\* ------------------------------------------------------------- registry
\* sync.Map.Range iterates the keys present when it starts.
Keys(m) == {k \in Ids : m[k] # NoPeer}

\* sync.Map.Store / Delete.
MapStore(m, k, v) == [m EXCEPT ![k] = v]
\* A Delete that empties the map.
MapDeleteAll(m, k) == [j \in Ids |-> NoPeer]
MapDelete(m, k)   == [m EXCEPT ![k] = NoPeer]

\* A registry change un-sets the "stable" mark of every Range in progress.
Touched(m) == IF m = peers THEN hstable ELSE [c \in Conns |-> FALSE]

\* --------------------------------------------------------------- filter
\* A Lookup that never finds the digest.
LookupMisses(rec, h) == FALSE
Lookup(rec, h) == h \in rec
\* An InsertUnique that does not store the digest.
InsertUniqueDrops(rec, h) == rec
InsertUnique(rec, h) == rec \cup {h}

\* ---------------------------------------------------------------- codec
\* Topo.Deserialize: proto.Unmarshal fails on a malformed buffer.
Deserialize(body) == body # "garbage"

\* A time.Time is its whole seconds since the epoch and the nanoseconds
\* within the second; Time.Unix() drops the nanoseconds, time.Unix(sec, 0)
\* has none.
Unix(t) == t.sec
TimeUnix(sec) == [sec |-> sec, nsec |-> 0]

\* new(Topo): the zero Topo.
NoTopo == [Pivot |-> "", Peers |-> <<>>, Time |-> TimeUnix(0)]
\* new(protos.Topo): the zero protobuf message.
NoPb == [Pivot |-> "", Peers |-> <<>>, Time |-> 0]

\* proto.Marshal(&protos.Topo{...}): the fields in the order of their
\* numbers, each as <<number, value>>: the string Pivot (1) and the integer
\* Time (3) are left out when they hold the zero value, the repeated Peers
\* (2) has one entry per element.
Marshal(pb) ==
    (IF pb.Pivot # "" THEN << <<1, pb.Pivot>> >> ELSE << >>)
    \o [j \in 1..Len(pb.Peers) |-> <<2, pb.Peers[j]>>]
    \o (IF pb.Time # 0 THEN << <<3, pb.Time>> >> ELSE << >>)

\* proto.Unmarshal(buf, pb): every field read is stored in pb, a repeated
\* one is appended; a field that is not in buf keeps its zero value.
RECURSIVE Unmarshal(_, _)
Unmarshal(buf, pb) ==
    IF buf = << >> THEN pb
    ELSE LET f == Head(buf) IN
         Unmarshal(Tail(buf),
                   IF f[1] = 1 THEN [pb EXCEPT !.Pivot = f[2]]
                   ELSE IF f[1] = 2 THEN [pb EXCEPT !.Peers = Append(@, f[2])]
                   ELSE [pb EXCEPT !.Time = f[2]])

\* crypto.Hash(32, data): the 32-byte digest of data.
Hash(data) == <<"hash", data>>

\* Topo.Serialize: append(hash, data...), as the payload's length, its
\* first 32 bytes and the bytes after them.
Serialize(t) ==
    LET data == Marshal([Pivot |-> t.Pivot, Peers |-> t.Peers,
                         Time |-> Unix(t.Time)])
    IN  [len |-> HashLen + Len(data), hash |-> Hash(data), body |-> data]

\* A Deserialize that does not copy the peers.
DeserializeDropsPeers(buf) ==
    LET pb == Unmarshal(buf, NoPb)
    IN  [Pivot |-> pb.Pivot, Peers |-> << >>, Time |-> TimeUnix(pb.Time)]
\* Topo.Deserialize(buf) on a buffer that unmarshals: the Topo it fills in.
DeserializeTopo(buf) ==
    LET pb == Unmarshal(buf, NoPb)
    IN  [Pivot |-> pb.Pivot, Peers |-> pb.Peers, Time |-> TimeUnix(pb.Time)]

\* t.p2p.URL(): this node's own address.
Self == "P"
\* time.Now() when Topology() runs.
Now == [sec |-> 1, nsec |-> 1]

\* The orders in which a Range can visit the keys S.
Orders(S) ==
    {q \in [1..Cardinality(S) -> S] :
        \A a, b \in 1..Cardinality(S) : a # b => q[a] # q[b]}

\* A Topology() that leaves the pivot unset.
TopologyNoPivot(m, order) ==
    [Pivot |-> "",
     Peers |-> [j \in 1..Len(order) |-> PeerString(m[order[j]])],
     Time  |-> Now]
\* Topology(): the pivot, the String() of every registered peer in the
\* order the Range visits them, and the time; order is one of Orders.
Topology(m, order) ==
    [Pivot |-> Self,
     Peers |-> [j \in 1..Len(order) |-> PeerString(m[order[j]])],
     Time  |-> Now]

\* The Topos the codec is tried on.
PeerLists ==
    UNION {[1..n -> Ids] : n \in 0..MaxPeers}
Topos ==
    {[Pivot |-> pv, Peers |-> ps, Time |-> [sec |-> sc, nsec |-> ns]] :
        pv \in {"", Self}, ps \in PeerLists, sc \in 0..MaxSec,
        ns \in {0, 1}}

\* A registry change ends the observation of every tick in progress.
TouchedTick(m) == IF m = peers THEN slstable ELSE [i \in Loops |-> FALSE]
TouchedWrites(m) == IF m = peers THEN slwrote ELSE [i \in Loops |-> {}]
TouchedTopo(m) == IF m = peers THEN sltopo ELSE [i \in Loops |-> NoTopo]

\* ------------------------------------------------------------------ New
\* The handler New returns; its producer is set when addresses are given.
New ==
    /\ peers = [k \in Ids |-> NoPeer]
    /\ record = {}
    /\ termClosed = FALSE
    /\ prodSet \in BOOLEAN
    /\ wg = 0
    /\ panicked = FALSE
    /\ stalled = {}
    /\ sinkStalled = FALSE
    /\ msgs = 0
    /\ hpc = [c \in Conns |-> "idle"]
    /\ hmsg = [c \in Conns |-> NoMsg]
    /\ htodo = [c \in Conns |-> {}]
    /\ hwrote = [c \in Conns |-> {}]
    /\ hstable = [c \in Conns |-> FALSE]
    /\ hsent = [c \in Conns |-> NoMsg]
    /\ herr = [c \in Conns |-> "none"]
    /\ slpc = [i \in Loops |-> "none"]
    /\ ticks = 0
    /\ sltodo = [i \in Loops |-> {}]
    /\ sltopo = [i \in Loops |-> NoTopo]
    /\ slwrote = [i \in Loops |-> {}]
    /\ slstable = [i \in Loops |-> FALSE]
    /\ started = 0
    /\ stopped = FALSE
    /\ ctl = "idle"
    /\ last = "none"

\* No codec round trip is under way.
CodecIdle ==
    /\ cpc = "off"
    /\ cin = NoTopo
    /\ cout = NoMsg
    /\ cdec = NoTopo

\* No BlockQueue is in use: the zero BlockQueue, never enqueued to.
QueueIdle ==
    /\ items = << >>
    /\ enqueued = << >>
    /\ qpanic = FALSE

\* The history of a tick is kept only in the specification that reads it.
Init == New /\ CodecIdle /\ QueueIdle /\ observing = FALSE

\* --------------------------------------------------------------- Handle
\* The deferred t.peers.Delete(p.String()) that runs when Handle returns.
HandleReturn(c) ==
    /\ peers' = MapDelete(peers, PeerString(c))
    /\ hpc' = [hpc EXCEPT ![c] = "done"]
    /\ hmsg' = [hmsg EXCEPT ![c] = NoMsg]
    /\ herr' = [herr EXCEPT ![c] = "none"]
    /\ hstable' = Touched(peers')
    /\ slstable' = TouchedTick(peers')
    /\ slwrote' = TouchedWrites(peers')
    /\ sltopo' = TouchedTopo(peers')
    /\ UNCHANGED <<htodo, hwrote, hsent>>

\* The p2p server hands connection c to Handle: the peer is stored under
\* its identity, replacing whatever was stored there.
HandleStart(c) ==
    /\ ~panicked
    /\ hpc[c] = "idle"
    /\ peers' = MapStore(peers, PeerString(c), c)
    /\ hpc' = [hpc EXCEPT ![c] = "select"]
    /\ hstable' = Touched(peers')
    /\ slstable' = TouchedTick(peers')
    /\ slwrote' = TouchedWrites(peers')
    /\ sltopo' = TouchedTopo(peers')
    /\ UNCHANGED <<msgs, hmsg, htodo, hwrote, hsent, herr>>
    /\ UNCHANGED <<record, termClosed, prodSet, wg, panicked>>
    /\ UNCHANGED <<slvars, stvars, envvars, cvars, qvars, observing>>

\* select { case <-t.term: return nil
HandleTerm(c) ==
    /\ ~panicked
    /\ hpc[c] = "select"
    /\ termClosed
    /\ HandleReturn(c)
    /\ UNCHANGED <<msgs, record, termClosed, prodSet, wg, panicked>>
    /\ UNCHANGED <<slvars, stvars, envvars, cvars, qvars, observing>>

\* select { default: the loop goes on to block in rw.ReadMsg()
HandleDefault(c) ==
    /\ ~panicked
    /\ hpc[c] = "select"
    /\ ~termClosed
    /\ hpc' = [hpc EXCEPT ![c] = "read"]
    /\ herr' = [herr EXCEPT ![c] = "none"]
    /\ UNCHANGED <<msgs, hmsg, htodo, hwrote, hstable, hsent, tkvars>>
    /\ UNCHANGED <<peers, record, termClosed, prodSet, wg, panicked>>
    /\ UNCHANGED <<slvars, stvars, envvars, cvars, qvars, observing>>

\* rw.ReadMsg() fails: return err.
ReadError(c) ==
    /\ ~panicked
    /\ hpc[c] = "read"
    /\ HandleReturn(c)
    /\ UNCHANGED <<msgs, record, termClosed, prodSet, wg, panicked>>
    /\ UNCHANGED <<slvars, stvars, envvars, cvars, qvars, observing>>

\* -------------------------------------------------------------- Receive
\* The checks Receive makes before it changes the filter or reads the
\* registry: the error it returns, or "novel" when it goes on.
ReceiveCheck(m, rec) ==
    IF m.len < HashLen THEN "invalid"
    ELSE IF Lookup(rec, m.hash) THEN "duplicate"
    ELSE IF ~Deserialize(m.body) THEN "undecodable"
    ELSE "novel"

\* A Handle that returns the error of Receive.
HandleStopsOnError(e) == TRUE
\* Handle, after Receive returned with error e:
\*     if t.Receive(msg, peer); err != nil { return err }
\* tests the err of the ReadMsg before it, which is nil here, never e.
HandleStopsOn(e) == FALSE

\* rw.ReadMsg() delivers a message of command cmd with payload m.
\* msg.Cmd != topoCmd: return nil.  Otherwise Receive(msg, peer) runs up to
\* its last early return; an early return leads back to Handle, which goes
\* on with its loop or returns.
ReadMsg(c, cmd, m) ==
    /\ ~panicked
    /\ hpc[c] = "read"
    /\ msgs < MaxMsgs
    /\ msgs' = msgs + 1
    /\ IF cmd # topoCmd
         THEN HandleReturn(c)
         ELSE LET e == ReceiveCheck(m, record) IN
              IF e = "novel"
                THEN /\ hpc' = [hpc EXCEPT ![c] = "insert"]
                     /\ hmsg' = [hmsg EXCEPT ![c] = m]
                     /\ UNCHANGED <<peers, htodo, hwrote, hstable, herr>>
                     /\ UNCHANGED <<hsent, tkvars>>
                ELSE IF HandleStopsOn(e)
                  THEN HandleReturn(c)
                  ELSE /\ hpc' = [hpc EXCEPT ![c] = "select"]
                       /\ herr' = [herr EXCEPT ![c] = e]
                       /\ UNCHANGED <<peers, hmsg, htodo, hwrote, hstable>>
                       /\ UNCHANGED <<hsent, tkvars>>
    /\ UNCHANGED <<record, termClosed, prodSet, wg, panicked>>
    /\ UNCHANGED <<slvars, stvars, envvars, cvars, qvars, observing>>

\* t.record.InsertUnique(hash), then t.peers.Range(...) begins.
Insert(c) ==
    /\ ~panicked
    /\ hpc[c] = "insert"
    /\ record' = InsertUnique(record, hmsg[c].hash)
    /\ hpc' = [hpc EXCEPT ![c] = "range"]
    /\ htodo' = [htodo EXCEPT ![c] = Keys(peers)]
    /\ hwrote' = [hwrote EXCEPT ![c] = {}]
    /\ hstable' = [hstable EXCEPT ![c] = TRUE]
    /\ hsent' = [hsent EXCEPT ![c] = NoMsg]
    /\ UNCHANGED <<msgs, peers, hmsg, herr, tkvars>>
    /\ UNCHANGED <<termClosed, prodSet, wg, panicked>>
    /\ UNCHANGED <<slvars, stvars, envvars, cvars, qvars, observing>>

\* A Range callback without the test of the sender.
RelayToAll(k, c) == TRUE
\* The Range callback of Receive: "if id != sender.String()".
RelayTo(k, c) == k # PeerString(c)

\* A relay that writes the snapshot encoded anew.
RelayReencoded(m) == [m EXCEPT !.hash = Hash(m.body)]
\* The relay's p.rw.WriteMsg(msg): msg is the message Receive was given.
RelayMsg(m) == m

\* One key of the relay Range: a key deleted meanwhile is not visited, the
\* sender's key is passed over, any other peer is written to; the write
\* returns (its result is dropped) or never completes.
Relay(c, k) ==
    /\ ~panicked
    /\ hpc[c] = "range"
    /\ k \in htodo[c]
    /\ htodo' = [htodo EXCEPT ![c] = @ \ {k}]
    /\ IF peers[k] # NoPeer /\ RelayTo(k, c)
         THEN \/ /\ peers[k] \notin stalled
                 /\ hwrote' = [hwrote EXCEPT ![c] = @ \cup {k}]
                 /\ hsent' = [hsent EXCEPT ![c] = RelayMsg(hmsg[c])]
                 /\ UNCHANGED <<hpc, stalled>>
              \/ /\ hpc' = [hpc EXCEPT ![c] = "inWrite"]
                 /\ stalled' = stalled \cup {peers[k]}
                 /\ UNCHANGED <<hwrote, hsent>>
         ELSE UNCHANGED <<hpc, hwrote, hsent, stalled>>
    /\ UNCHANGED <<msgs, peers, hmsg, hstable, herr, sinkStalled, tkvars>>
    /\ UNCHANGED <<record, termClosed, prodSet, wg, panicked>>
    /\ UNCHANGED <<slvars, stvars, cvars, qvars, observing>>

\* After the Range: "if t.prod != nil { t.write(...) }", then return nil.
\* t.write sends on the producer's input channel: the send completes, or
\* blocks for good when the producer does not drain it.
Report(c) ==
    /\ ~panicked
    /\ hpc[c] = "range"
    /\ htodo[c] = {}
    /\ \/ /\ prodSet => ~sinkStalled
          /\ hpc' = [hpc EXCEPT ![c] = "select"]
          /\ hmsg' = [hmsg EXCEPT ![c] = NoMsg]
          /\ hwrote' = [hwrote EXCEPT ![c] = {}]
          /\ hstable' = [hstable EXCEPT ![c] = FALSE]
          /\ hsent' = [hsent EXCEPT ![c] = NoMsg]
          /\ UNCHANGED sinkStalled
       \/ /\ prodSet
          /\ hpc' = [hpc EXCEPT ![c] = "inSink"]
          /\ sinkStalled' = TRUE
          /\ UNCHANGED <<hmsg, hwrote, hstable, hsent>>
    /\ UNCHANGED <<msgs, peers, htodo, herr, stalled, tkvars>>
    /\ UNCHANGED <<record, termClosed, prodSet, wg, panicked>>
    /\ UNCHANGED <<slvars, stvars, cvars, qvars, observing>>

\* ---------------------------------------------------------------- Start
\* A Start that makes a new t.term for the broadcaster it launches.
StartRemakesTerm ==
    /\ ~panicked
    /\ ctl = "idle"
    /\ last # "Start"
    /\ started < MaxStarts
    /\ last' = "Start"
    /\ started' = started + 1
    /\ wg' = wg + 1
    /\ termClosed' = FALSE
    /\ slpc' = [slpc EXCEPT ![started + 1] = "select"]
    /\ UNCHANGED <<ticks, sltodo, sltopo, slwrote, slstable, ctl, stopped>>
    /\ UNCHANGED <<peers, record, prodSet, panicked>>
    /\ UNCHANGED <<hvars, envvars, cvars, qvars, observing>>

\* Start: t.wg.Add(1); go t.sendLoop().  The new goroutine creates its
\* ticker and reaches its select.  The owner calls Start on a handler that
\* is newly made or that it has stopped.
Start ==
    /\ ~panicked
    /\ ctl = "idle"
    /\ last # "Start"
    /\ started < MaxStarts
    /\ last' = "Start"
    /\ started' = started + 1
    /\ wg' = wg + 1
    /\ slpc' = [slpc EXCEPT ![started + 1] = "select"]
    /\ UNCHANGED <<ticks, sltodo, sltopo, slwrote, slstable, ctl, stopped>>
    /\ UNCHANGED <<peers, record, termClosed, prodSet, panicked>>
    /\ UNCHANGED <<hvars, envvars, cvars, qvars, observing>>

\* ------------------------------------------------------------- sendLoop
\* select { case <-t.term: return }, with the deferred ticker.Stop() and
\* t.wg.Done().
LoopTerm(i) ==
    /\ ~panicked
    /\ slpc[i] = "select"
    /\ termClosed
    /\ slpc' = [slpc EXCEPT ![i] = "exited"]
    /\ wg' = wg - 1
    /\ UNCHANGED <<ticks, sltodo, sltopo, slwrote, slstable, started>>
    /\ UNCHANGED <<peers, record, termClosed, prodSet, panicked>>
    /\ UNCHANGED <<hvars, stvars, envvars, cvars, qvars, observing>>

\* select { case <-ticker.C: the 5 second ticker has fired.
\* topo := t.Topology(); data := topo.Serialize(); t.peers.Range(...) begins.
LoopTick(i) ==
    /\ ~panicked
    /\ slpc[i] = "select"
    /\ ticks < MaxTicks
    /\ ticks' = ticks + 1
    /\ IF observing
         THEN \E order \in Orders(Keys(peers)) :
                 sltopo' = [sltopo EXCEPT ![i] = Topology(peers, order)]
         ELSE UNCHANGED sltopo
    /\ sltodo' = [sltodo EXCEPT ![i] = Keys(peers)]
    /\ slwrote' = [slwrote EXCEPT ![i] = {}]
    /\ slstable' = [slstable EXCEPT ![i] = observing]
    /\ slpc' = [slpc EXCEPT ![i] = "range"]
    /\ UNCHANGED started
    /\ UNCHANGED <<peers, record, termClosed, prodSet, wg, panicked>>
    /\ UNCHANGED <<hvars, stvars, envvars, cvars, qvars, observing>>

\* What a call of rw.WriteMsg does: it returns nil, returns an error, or
\* never returns.
WriteResults == {"nil", "error", "blocks"}

\* One key of the broadcast Range: peer.rw.WriteMsg(...) is called in the
\* Range callback itself, with data as the payload; it returns (its result,
\* nil or an error, is dropped) or never completes, and then neither does
\* the callback.  A key deleted meanwhile is not visited.
Broadcast(i, k, res) ==
    /\ ~panicked
    /\ slpc[i] = "range"
    /\ k \in sltodo[i]
    /\ sltodo' = [sltodo EXCEPT ![i] = @ \ {k}]
    /\ IF peers[k] # NoPeer
         THEN IF res # "blocks"
                THEN /\ peers[k] \notin stalled
                     /\ slwrote' = [slwrote EXCEPT ![i] =
                            IF slstable[i]
                              THEN @ \cup {<<k, Serialize(sltopo[i])>>}
                              ELSE @]
                     /\ UNCHANGED <<slpc, stalled>>
                ELSE /\ slpc' = [slpc EXCEPT ![i] = "inWrite"]
                     /\ stalled' = stalled \cup {peers[k]}
                     /\ UNCHANGED slwrote
         ELSE /\ res = "nil"
              /\ UNCHANGED <<slpc, slwrote, stalled>>
    /\ UNCHANGED <<ticks, sltopo, slstable, started, sinkStalled>>
    /\ UNCHANGED <<peers, record, termClosed, prodSet, wg, panicked>>
    /\ UNCHANGED <<hvars, stvars, cvars, qvars, observing>>

\* t.write(topic, data): t.prod.Input() <- msg.  On a nil t.prod the method
\* call panics (nil pointer dereference), which nothing recovers.
WritePanics == ~prodSet

\* After the Range: t.write("p2p_status_event", topo.Json()), called
\* whether or not t.prod is nil; then back to the select.
Publish(i) ==
    /\ ~panicked
    /\ slpc[i] = "range"
    /\ sltodo[i] = {}
    /\ \/ /\ WritePanics
          /\ panicked' = TRUE
          /\ slpc' = [slpc EXCEPT ![i] = "panic"]
          /\ UNCHANGED <<sinkStalled, sltopo, slwrote, slstable>>
       \/ /\ ~WritePanics
          /\ ~sinkStalled
          /\ slpc' = [slpc EXCEPT ![i] = "select"]
          /\ sltopo' = [sltopo EXCEPT ![i] = NoTopo]
          /\ slwrote' = [slwrote EXCEPT ![i] = {}]
          /\ slstable' = [slstable EXCEPT ![i] = FALSE]
          /\ UNCHANGED <<panicked, sinkStalled>>
       \/ /\ ~WritePanics
          /\ slpc' = [slpc EXCEPT ![i] = "inSink"]
          /\ sinkStalled' = TRUE
          /\ UNCHANGED <<panicked, sltopo, slwrote, slstable>>
    /\ UNCHANGED <<ticks, sltodo, started, stalled>>
    /\ UNCHANGED <<peers, record, termClosed, prodSet, wg>>
    /\ UNCHANGED <<hvars, stvars, cvars, qvars, observing>>

\* ----------------------------------------------------------------- Stop
\* A Stop that closes t.term without looking at it first.
StopCallUnguarded ==
    /\ ~panicked
    /\ ctl = "idle"
    /\ ctl' = "close"
    /\ UNCHANGED <<last, stopped>>
    /\ UNCHANGED <<peers, record, termClosed, prodSet, wg, panicked>>
    /\ UNCHANGED <<hvars, envvars, cvars, qvars, observing>>
    /\ UNCHANGED <<slvars, tkvars>>

\* Stop: select { case <-t.term: (nothing)   default: ... }
StopCall ==
    /\ ~panicked
    /\ ctl = "idle"
    /\ IF termClosed
         THEN /\ last' = "StopNoop"
              /\ stopped' = TRUE
              /\ UNCHANGED ctl
         ELSE /\ ctl' = "close"
              /\ UNCHANGED <<last, stopped>>
    /\ UNCHANGED <<peers, record, termClosed, prodSet, wg, panicked>>
    /\ UNCHANGED <<hvars, envvars, cvars, qvars, observing>>
    /\ UNCHANGED <<slvars, tkvars>>

\* close(t.term); closing a closed channel panics.
StopClose ==
    /\ ~panicked
    /\ ctl = "close"
    /\ IF termClosed
         THEN /\ panicked' = TRUE
              /\ UNCHANGED <<termClosed, ctl>>
         ELSE /\ termClosed' = TRUE
              /\ ctl' = "wait"
              /\ UNCHANGED panicked
    /\ UNCHANGED <<peers, record, prodSet, wg, stopped, last>>
    /\ UNCHANGED <<hvars, envvars, cvars, qvars, observing>>
    /\ UNCHANGED <<slvars, tkvars>>

\* A Stop that returns without t.wg.Wait().
StopNoWait ==
    /\ ~panicked
    /\ ctl = "wait"
    /\ ctl' = "idle"
    /\ last' = "Stop"
    /\ stopped' = TRUE
    /\ UNCHANGED <<peers, record, termClosed, prodSet, wg, panicked>>
    /\ UNCHANGED <<hvars, envvars, cvars, qvars, observing>>
    /\ UNCHANGED <<slvars, tkvars>>

\* t.wg.Wait() returns once the counter is zero; Stop returns.
StopWait ==
    /\ ~panicked
    /\ ctl = "wait"
    /\ wg = 0
    /\ ctl' = "idle"
    /\ last' = "Stop"
    /\ stopped' = TRUE
    /\ UNCHANGED <<peers, record, termClosed, prodSet, wg, panicked>>
    /\ UNCHANGED <<hvars, envvars, cvars, qvars, observing>>
    /\ UNCHANGED <<slvars, tkvars>>

\* ---------------------------------------------------- codec round trip
\* data, err := topo.Serialize() on the Topo cin.
CodecSerialize ==
    /\ cpc = "new"
    /\ cout' = Serialize(cin)
    /\ cpc' = "serialized"
    /\ UNCHANGED <<cin, cdec>>
    /\ UNCHANGED <<tvars, hvars, slvars, tkvars, stvars, envvars, qvars,
                   observing>>

\* topo.Deserialize(msg.Payload[32:]) on a new(Topo), as Receive calls it.
CodecDeserialize ==
    /\ cpc = "serialized"
    /\ cdec' = DeserializeTopo(cout.body)
    /\ cpc' = "deserialized"
    /\ UNCHANGED <<cin, cout>>
    /\ UNCHANGED <<tvars, hvars, slvars, tkvars, stvars, envvars, qvars,
                   observing>>

\* ----------------------------------------------------------- BlockQueue
\* BlockQueue.Enqueue from the k-th item on (k counts from 1, the code's k
\* from 0), on the items its:
\*     for k, v := range q.items {
\*         if block.Height.Cmp(v.Height) == -1 {
\*             newSlice := q.items[0 : k-1]
\*             newSlice = append(newSlice, block) } }
\* At the first item the slice expression q.items[0:-1] panics.  At a later
\* one newSlice shares the array of q.items and has room, so that append
\* stores the block over the item before the k-th; q.items itself is never
\* assigned and keeps its length.
RECURSIVE EnqueueLoop(_, _, _)
EnqueueLoop(its, h, k) ==
    IF k > Len(its) THEN [items |-> its, panic |-> FALSE]
    ELSE IF h < its[k]
      THEN IF k = 1
             THEN [items |-> its, panic |-> TRUE]
             ELSE EnqueueLoop([its EXCEPT ![k - 1] = h], h, k + 1)
      ELSE EnqueueLoop(its, h, k + 1)

\* The heights of the blocks that are enqueued.
Heights == 1..MaxHeight

\* q.Enqueue(block), block of height h.
Enqueue(h) ==
    /\ ~qpanic
    /\ Len(enqueued) < MaxEnqueues
    /\ enqueued' = Append(enqueued, h)
    /\ LET r == EnqueueLoop(items, h, 1) IN
         /\ items' = r.items
         /\ qpanic' = r.panic
    /\ UNCHANGED <<tvars, hvars, slvars, tkvars, stvars, envvars, cvars,
                   observing>>

\* -------------------------------------------------------- specification
\* The receive side: the Handle goroutines, with the owner's Stop calls
\* that close t.term under them.
HandleNext ==
    \/ \E c \in Conns : HandleStart(c)
    \/ \E c \in Conns : HandleTerm(c)
    \/ \E c \in Conns : HandleDefault(c)
    \/ \E c \in Conns : ReadError(c)

ReceiveNext ==
    \/ \E c \in Conns, cmd \in Cmds, m \in Payloads : ReadMsg(c, cmd, m)
    \/ \E c \in Conns : Insert(c)
    \/ \E c \in Conns, k \in Ids : Relay(c, k)
    \/ \E c \in Conns : Report(c)

\* The broadcast side: the sendLoop goroutines.
SendNext ==
    \/ \E i \in Loops : LoopTerm(i)
    \/ \E i \in Loops : LoopTick(i)
    \/ \E i \in Loops, k \in Ids, res \in WriteResults : Broadcast(i, k, res)
    \/ \E i \in Loops : Publish(i)

StopNext ==
    \/ StopCall
    \/ StopClose
    \/ StopWait

Next ==
    \/ HandleNext
    \/ ReceiveNext
    \/ Start
    \/ SendNext
    \/ StopNext

Spec == Init /\ [][Next]_vars

\* sendLoop writes none of the state Handle and Receive read but the
\* process-wide panic, and Handle and Receive write none of the state
\* sendLoop and Stop read but the registry, so each side is also checked
\* on its own: the receive side with Stop but no broadcaster, ...
RelayNext ==
    \/ HandleNext
    \/ ReceiveNext
    \/ StopNext

RelaySpec == Init /\ [][RelayNext]_vars

\* ... and the lifecycle and the broadcaster with peers that connect and
\* disconnect but send no topology message.
LifeNext ==
    \/ HandleNext
    \/ Start
    \/ SendNext
    \/ StopNext

LifeSpec == Init /\ [][LifeNext]_vars

\* The Go scheduler runs every goroutine that can take a step; a select
\* whose term case is ready and whose ticker is not takes the term case.
LifeFairness ==
    /\ \A i \in Loops : SF_vars(LoopTerm(i))
    /\ \A i \in Loops, k \in Ids :
          WF_vars(\E res \in WriteResults : Broadcast(i, k, res))
    /\ \A i \in Loops : WF_vars(Publish(i))
    /\ WF_vars(StopClose)
    /\ WF_vars(StopWait)

FairLifeSpec == LifeSpec /\ LifeFairness

\* The handler while it runs: the owner has started it and does not stop
\* it, peers connect and disconnect and send commands that are not the
\* topology command, the broadcaster ticks, and the ticks are observed.
\* (A Stop reaches a tick in progress only through the registry entry that
\* a Handle, seeing t.term closed, deletes as it does on a read error.)
RunInit == New /\ CodecIdle /\ QueueIdle /\ observing = TRUE

RunNext ==
    \/ \E c \in Conns : HandleStart(c)
    \/ \E c \in Conns : HandleDefault(c)
    \/ \E c \in Conns : ReadError(c)
    \/ \E c \in Conns, cmd \in Cmds \ {topoCmd}, m \in Payloads :
          ReadMsg(c, cmd, m)
    \/ Start
    \/ \E i \in Loops : LoopTick(i)
    \/ \E i \in Loops, k \in Ids, res \in WriteResults : Broadcast(i, k, res)
    \/ \E i \in Loops : Publish(i)

RunSpec == RunInit /\ [][RunNext]_vars

\* The codec on its own: a Topo is serialized, and the bytes after the
\* digest are deserialized.
CodecInit ==
    /\ New /\ QueueIdle /\ observing = FALSE
    /\ cpc = "new"
    /\ cin \in Topos
    /\ cout = NoMsg
    /\ cdec = NoTopo

CodecNext ==
    \/ CodecSerialize
    \/ CodecDeserialize

CodecSpec == CodecInit /\ [][CodecNext]_vars

\* A BlockQueue on its own: Enqueue calls on the zero BlockQueue.
QueueNext == \E h \in Heights : Enqueue(h)

QueueSpec == Init /\ [][QueueNext]_vars

TypeOK ==
    /\ peers \in [Ids -> Conns \cup {NoPeer}]
    /\ record \subseteq Digests
    /\ wg \in 0..MaxStarts
    /\ stalled \subseteq Conns
    /\ \A k \in Ids : peers[k] # NoPeer => PeerString(peers[k]) = k

\* ------------------------------------------------------------------ C1
\* Handle invocation c is in Receive at or after the relay Range.
Relaying(c) == hpc[c] \in {"range", "inWrite", "inSink"}

\* C1: insert-before-forward.  In every state in which Receive is at or
\* past its relay Range, and so in every state from which a relay write of
\* a message is made, the message's digest is in the filter.
C1_InsertBeforeForward ==
    \A c \in Conns : Relaying(c) => Lookup(record, hmsg[c].hash)

\* A relay write has been made, of a message whose digest is in the filter.
C1_Witness ==
    \E c \in Conns :
        Relaying(c) /\ hwrote[c] # {} /\ Lookup(record, hmsg[c].hash)

\* ------------------------------------------------------------------ C2
\* C2: no self-loop.  The relay of a message received from peer S never
\* writes to the peer registered as S, and a relay Range that has visited
\* all its keys while the registry stood still has written to every
\* registered peer other than S.
C2_NoSelfLoop ==
    \A c \in Conns :
        Relaying(c) =>
            /\ PeerString(c) \notin hwrote[c]
            /\ (hpc[c] = "range" /\ htodo[c] = {} /\ hstable[c])
                  => hwrote[c] = Keys(peers) \ {PeerString(c)}

\* A relay has finished, its sender still registered, having written to
\* another peer.
C2_Witness ==
    \E c \in Conns :
        /\ hpc[c] = "range" /\ htodo[c] = {} /\ hstable[c]
        /\ peers[PeerString(c)] # NoPeer
        /\ hwrote[c] # {}

\* ------------------------------------------------------------------ C3
\* C3: duplicate drop.  A Receive of a message whose digest is in the
\* filter returns at once: the step writes to no peer, publishes nothing,
\* changes neither filter nor registry, and leaves Handle at the top of its
\* loop.
C3_DuplicateDrop ==
    [][\A c \in Conns, m \in Payloads :
          (ReadMsg(c, topoCmd, m) /\ m.len >= HashLen /\ m.hash \in record)
             => /\ hpc'[c] = "select"
                /\ herr'[c] = "duplicate"
                /\ UNCHANGED <<peers, record, hwrote, htodo, hmsg>>
                /\ UNCHANGED <<stalled, sinkStalled>>]_vars

\* A duplicate has been dropped and the connection it came on is still
\* served and registered, after some message was relayed.
C3_Witness ==
    \E c \in Conns :
        /\ herr[c] = "duplicate"
        /\ hpc[c] = "select"
        /\ peers[PeerString(c)] = c
        /\ record # {}

\* ------------------------------------------------------------------ C4
\* C4: non-blocking broadcast.  The broadcaster is never held in a write
\* that does not complete while a registered peer has yet to be sent this
\* tick's message.
C4_NonBlockingBroadcast ==
    \A i \in Loops :
        slpc[i] = "inWrite" => \A k \in sltodo[i] : peers[k] = NoPeer

\* ------------------------------------------------------------------ C5
\* A sendLoop goroutine is running.
Alive(i) == slpc[i] \notin {"none", "exited"}

\* C5: when a Stop call that found t.term open has returned, and until the
\* next Start, no sendLoop goroutine is running.
C5_StopJoinsBroadcaster ==
    last = "Stop" => \A i \in Loops : ~Alive(i)

\* Stop has returned and a broadcaster that had taken a tick has exited.
C5_Witness ==
    /\ last = "Stop"
    /\ ticks > 0
    /\ \E i \in Loops : slpc[i] = "exited"

\* ------------------------------------------------------------------ C6
\* C6: a Stop call made when the last call was a Stop that has returned
\* returns at once: it does not close t.term, does not panic and does not
\* wait.
C6_StopIdempotent ==
    [][(StopCall /\ last \in {"Stop", "StopNoop"})
          => /\ last' = "StopNoop"
             /\ ctl' = "idle"
             /\ UNCHANGED <<termClosed, panicked, wg, slpc>>]_vars

\* A second Stop has returned as a no-op after a broadcaster was stopped.
C6_Witness ==
    /\ last = "StopNoop"
    /\ ctl = "idle"
    /\ started > 0
    /\ termClosed
    /\ ~panicked

\* ------------------------------------------------------------------ C7
\* C7: every Stop call returns, whatever the broadcaster, the peers and
\* the sink do (short of a panic that ends the process).
C7_StopReturns == (ctl # "idle") ~> (ctl = "idle" \/ panicked)

\* ------------------------------------------------------------------ C8
\* C8 as claimed: while the last call is a Start, and no Stop is under way,
\* the broadcaster that Start launched has not exited.
C8_RestartRuns ==
    (last = "Start" /\ ctl = "idle") => slpc[started] # "exited"

\* C8 as amended: once a Stop has returned t.term is closed for good, also
\* after a later Start, so that the term case of every later select of a
\* broadcaster is ready.
C8_StoppedIsTerminal == stopped => termClosed

\* A broadcaster launched by a Start after a Stop has exited with no
\* further Stop.
C8_Witness ==
    /\ stopped
    /\ last = "Start"
    /\ ctl = "idle"
    /\ slpc[started] = "exited"

\* ------------------------------------------------------------------ C9
\* C9: with no producer the broadcaster's publish is a no-op, so the
\* broadcaster does not fail.
C9_NoSinkNoop ==
    ~prodSet => \A i \in Loops : slpc[i] # "panic"

\* ----------------------------------------------------------------- C10
\* C10: an undersized message ends the receive loop of the peer that sent
\* it and removes the peer from the registry.
C10_UndersizedTerminates ==
    [][\A c \in Conns, m \in Payloads :
          (ReadMsg(c, topoCmd, m) /\ m.len < HashLen)
             => /\ hpc'[c] = "done"
                /\ peers'[PeerString(c)] = NoPeer]_vars

\* ----------------------------------------------------------------- C11
\* C11: failure isolation.  A read error, or a message whose command is
\* not the topology command, on connection c ends the receive loop of c and
\* deletes the registry entry of c's peer; the entry of every other peer,
\* the receive loop of every other connection, the filter and the
\* broadcaster are as before.
C11_FailureIsolation ==
    [][\A c \in Conns :
          (ReadError(c)
             \/ \E cmd \in Cmds \ {topoCmd}, m \in Payloads : ReadMsg(c, cmd, m))
             => /\ hpc'[c] = "done"
                /\ peers'[PeerString(c)] = NoPeer
                /\ \A k \in Ids \ {PeerString(c)} : peers'[k] = peers[k]
                /\ \A d \in Conns \ {c} :
                      /\ hpc'[d] = hpc[d]
                      /\ hmsg'[d] = hmsg[d]
                      /\ htodo'[d] = htodo[d]
                /\ UNCHANGED <<record, termClosed, panicked, wg>>
                /\ UNCHANGED <<slpc, sltodo, ticks>>]_vars

\* A connection has been ended after a message was read, while another
\* peer is registered and served and the broadcaster is in a tick.
C11_Witness ==
    \E c, d \in Conns :
        /\ hpc[c] = "done"
        /\ msgs > 0
        /\ PeerString(d) # PeerString(c)
        /\ peers[PeerString(d)] = d
        /\ hpc[d] = "read"
        /\ \E i \in Loops : slpc[i] = "range"

\* ----------------------------------------------------------------- C12
\* C12: a peer whose write failed is no longer registered.  When the
\* WriteMsg of a broadcast to the peer registered under k returns an error,
\* k is not in the registry afterwards.
C12_WriteErrorUnregisters ==
    [][\A i \in Loops, k \in Ids :
          (Broadcast(i, k, "error") /\ peers[k] # NoPeer)
             => peers'[k] = NoPeer]_vars

\* ----------------------------------------------------------------- C13
\* The broadcast Range of the tick of sendLoop i has visited all its keys,
\* and the registry has not been touched since the tick began.
TickDone(i) == slpc[i] = "range" /\ sltodo[i] = {} /\ slstable[i]

\* C13: broadcast content.  At the end of the broadcast Range of a tick
\* during which the registry has not changed, every registered peer has
\* been written one message and no one else has; the payload of each
\* decodes, after its digest, to a Topo whose pivot is this node's address
\* and whose peers are the registered identities, each once.
C13_BroadcastContent ==
    \A i \in Loops :
        TickDone(i) =>
            /\ {w[1] : w \in slwrote[i]} = Keys(peers)
            /\ Cardinality(slwrote[i]) = Cardinality(Keys(peers))
            /\ \A w \in slwrote[i] :
                  LET t == DeserializeTopo(w[2].body) IN
                    /\ w[2].len >= HashLen
                    /\ t.Pivot = Self
                    /\ {t.Peers[j] : j \in 1..Len(t.Peers)} = Keys(peers)
                    /\ Len(t.Peers) = Cardinality(Keys(peers))

\* A tick has written to two registered peers.
C13_Witness ==
    \E i \in Loops : TickDone(i) /\ Cardinality(slwrote[i]) = 2

\* ----------------------------------------------------------------- C14
\* C14: codec round trip.  The bytes Serialize returns begin with the
\* digest of the bytes after it, and those deserialize to a Topo with the
\* pivot and the peers of the Topo serialized, in the same order, and its
\* time cut to whole seconds.
C14_RoundTrip ==
    /\ cpc \in {"serialized", "deserialized"} => cout.hash = Hash(cout.body)
    /\ cpc = "deserialized" =>
          /\ cdec.Pivot = cin.Pivot
          /\ cdec.Peers = cin.Peers
          /\ cdec.Time = [sec |-> cin.Time.sec, nsec |-> 0]

\* A Topo with a pivot, a full peers list and a time that is not on a whole
\* second has gone through Serialize and Deserialize.
C14_Witness ==
    /\ cpc = "deserialized"
    /\ cin.Pivot # ""
    /\ Len(cin.Peers) = MaxPeers
    /\ cin.Time.nsec # 0
    /\ cin.Time.sec # 0

\* ----------------------------------------------------------------- C15
\* C15: raw relay.  What the relay of Receive has written to a peer is the
\* message Receive was given: the same digest and the same bytes after it.
C15_RawRelay ==
    \A c \in Conns :
        (Relaying(c) /\ hwrote[c] # {}) => hsent[c] = hmsg[c]

\* A relay has written a message of 32 bytes or more to another peer.
C15_Witness ==
    \E c \in Conns :
        /\ Relaying(c)
        /\ hwrote[c] # {}
        /\ hsent[c] # NoMsg
        /\ hsent[c].len >= HashLen

\* ----------------------------------------------------------------- C16
\* C16: decode failure leniency.  A Receive of a message of 32 bytes or
\* more, whose digest is not in the filter and whose payload does not
\* unmarshal, writes to no peer, publishes nothing, leaves filter and
\* registry as they are, and Handle goes on with its loop.
C16_DecodeFailureLenient ==
    [][\A c \in Conns, m \in Payloads :
          (/\ ReadMsg(c, topoCmd, m)
           /\ m.len >= HashLen
           /\ ~Lookup(record, m.hash)
           /\ ~Deserialize(m.body))
             => /\ hpc'[c] = "select"
                /\ herr'[c] = "undecodable"
                /\ UNCHANGED <<peers, record, hwrote, hsent, htodo, hmsg>>
                /\ UNCHANGED <<stalled, sinkStalled>>]_vars

\* An undecodable message has been discarded and the connection it came on
\* is still served and registered.
C16_Witness ==
    \E c \in Conns :
        /\ herr[c] = "undecodable"
        /\ hpc[c] = "select"
        /\ peers[PeerString(c)] = c

\* ----------------------------------------------------------------- C17
\* C17: the sink never stalls the protocol.  Neither a broadcaster nor a
\* receive loop is ever held in the publish to a sink that does not drain.
C17_SinkNeverStalls ==
    /\ \A i \in Loops : slpc[i] # "inSink"
    /\ \A c \in Conns : hpc[c] # "inSink"

\* ----------------------------------------------------------------- C18
\* Handle invocation c is in a Receive that has found its message novel.
Novel(c) == hpc[c] = "insert" \/ Relaying(c)

\* C18: concurrent deduplication.  Two receive loops of different peers
\* are never both in a Receive that has found the same message novel.
C18_OneNovel ==
    \A c, d \in Conns :
        (PeerString(c) # PeerString(d) /\ Novel(c) /\ Novel(d))
            => hmsg[c] # hmsg[d]

\* ----------------------------------------------------------------- C19
\* Handle invocation c is running its receive loop.
Serving(c) == hpc[c] \notin {"idle", "done"}

\* C19: registration under reconnect.  As long as a Handle invocation for
\* a peer is running, the registry has an entry for the peer.
C19_RegisteredWhileServed ==
    \A c \in Conns : Serving(c) => peers[PeerString(c)] # NoPeer

\* ----------------------------------------------------------------- C20
\* The number of items of height h in the sequence q.
Count(q, h) == Cardinality({j \in 1..Len(q) : q[j] = h})

\* C20: Enqueue keeps the queue sorted.  After any sequence of Enqueue
\* calls on an empty queue no call has panicked, and the queue holds the
\* blocks enqueued, each once, in non-decreasing order of height.
C20_EnqueueSorted ==
    /\ ~qpanic
    /\ \A h \in Heights : Count(items, h) = Count(enqueued, h)
    /\ \A j \in 1..Len(items) : j > 1 => items[j - 1] <= items[j]

====
